---- MODULE Spec2Model ----
(***************************************************************************)
(* Model of costcocr: the receipt intermediate representation              *)
(* (costcocr/receipt.py: Item, ItemList, Receipt, write), the CSV writer   *)
(* (costcocr/writers/csv.py) and the OCR line parser (costcocr/parser.py). *)
(*                                                                         *)
(* Python values are records tagged with their type.  A Python str is a    *)
(* sequence of tokens (one-character strings, or atomic lexemes such as    *)
(* the text of a number).  A dict is the sequence of its <<key, value>>    *)
(* pairs in insertion order.                                               *)
(***************************************************************************)
EXTENDS Integers, Sequences, FiniteSets, TLC

VARIABLES
    \* --- the data model (receipt.py)
    call,       \* the last call made: [op, args]
    exc,        \* the exception the last call raised ("" when it returned)
    ret,        \* the value the last call returned (None when it raised)
    item,       \* the Item most recently constructed (None before)
    item0,      \* history: that Item as its constructor left it
    ilist,      \* the ItemList object (None before construction)
    ilist0,     \* history: the ItemList as its constructor left it
    rcpt,       \* the Receipt object (None before construction)
    rcpt0,      \* history: the Receipt as its constructor left it
    \* --- write (receipt.py)
    excArg,     \* the argument of the exception the last call raised
    trace,      \* the calls of conversion functions the last write made
    cfs,        \* the caller's function table (a dict), None before it exists
    cfs0,       \* history: the table and the variables as the caller built them
    cvars,      \* the caller's variables dict
    writer,     \* write(convert_fs, variables): the arguments the curry holds
    ncalls,     \* the number of receipts passed to the writer so far
    \* --- repr (receipt.py)
    text,       \* the text repr() produced in the last round trip
    \* --- the OCR line parser (parser.py)
    item_list, item_cost_list, A_list, total, rec_dict,
    status,     \* "running", or the exception that ended the script
    nlines,     \* the number of lines the main loop has processed
    line,       \* the line the main loop processed last
    prev        \* history: the lists and the total before that line

dataVars == <<call, exc, ret, item, item0, ilist, ilist0, rcpt, rcpt0>>
writeVars == <<excArg, trace, cfs, cfs0, cvars, writer, ncalls>>
reprVars == <<text>>
parserVars == <<item_list, item_cost_list, A_list, total, rec_dict, status, nlines, line, prev>>
vars == <<dataVars, writeVars, reprVars, parserVars>>

(***************************************************************************)
(* Bounds of the model.                                                    *)
(***************************************************************************)
MaxNum == 2
MaxItems == 2
MaxCalls == 2
MaxNameLen == 2
MaxFieldLen == 3
MaxLines == 3

Nums == -1 .. MaxNum

(***************************************************************************)
(* Python values.                                                          *)
(***************************************************************************)
None == [type |-> "NoneType"]
PyStr(s) == [type |-> "str", s |-> s]
PyInt(n) == [type |-> "int", n |-> n]
PyList(es) == [type |-> "list", elems |-> es]
PyTuple(es) == [type |-> "tuple", elems |-> es]
PyDict(kv) == [type |-> "dict", kv |-> kv]

Raise(e) == [exc |-> e, obj |-> None]
Return(v) == [exc |-> "", obj |-> v]

SeqsUpTo(S, n) == UNION {[1 .. k -> S] : k \in 0 .. n}

\* isinstance(v, Number)
IsNumber(v) == v.type = "int"

(***************************************************************************)
(* class Item                                                              *)
(***************************************************************************)
\* the loop of Item.__init__ over (cost, discount, tax): the first failing
\* check decides the exception
RECURSIVE CheckNumbers(_, _)
CheckNumbers(vs, i) ==
    IF i > Len(vs) THEN ""
    ELSE IF ~IsNumber(vs[i]) THEN "TypeError"
    ELSE IF vs[i].n < 0 THEN "ValueError"
    ELSE CheckNumbers(vs, i + 1)

\* the same loop with the range check left out
RECURSIVE CheckNumbersNoRange(_, _)
CheckNumbersNoRange(vs, i) ==
    IF i > Len(vs) THEN ""
    ELSE IF ~IsNumber(vs[i]) THEN "TypeError"
    ELSE CheckNumbersNoRange(vs, i + 1)

ItemInitNoRange(name, cost, discount, tax) ==
    IF name.type # "str" THEN Raise("TypeError")
    ELSE LET e == CheckNumbersNoRange(<<cost, discount, tax>>, 1) IN
         IF e # "" THEN Raise(e)
         ELSE Return([type |-> "Item", name |-> name.s, cost |-> cost.n,
                      discount |-> discount.n, tax |-> tax.n,
                      total |-> (cost.n * (1 + tax.n)) - discount.n])

ItemInit(name, cost, discount, tax) ==
    IF name.type # "str" THEN Raise("TypeError")
    ELSE LET e == CheckNumbers(<<cost, discount, tax>>, 1) IN
         IF e # "" THEN Raise(e)
         ELSE Return([type |-> "Item", name |-> name.s, cost |-> cost.n,
                      discount |-> discount.n, tax |-> tax.n,
                      total |-> (cost.n * (1 + tax.n)) - discount.n])

ItemAttrs == {"name", "cost", "discount", "tax", "total"}

\* the read-only properties name, cost, discount, tax, total
ItemGetAttr(it, attr) ==
    CASE attr = "name" -> Return(PyStr(it.name))
      [] attr = "cost" -> Return(PyInt(it.cost))
      [] attr = "discount" -> Return(PyInt(it.discount))
      [] attr = "tax" -> Return(PyInt(it.tax))
      [] attr = "total" -> Return(PyInt(it.total))

\* assignment to a property that has no setter: AttributeError, the object
\* is left as it was
ItemSetAttr(it, attr, v) == [exc |-> "AttributeError", obj |-> it]

ItemEq(a, b) ==
    a.name = b.name /\ a.cost = b.cost /\ a.discount = b.discount /\ a.tax = b.tax

ItemNe(a, b) == ~ItemEq(a, b)

(***************************************************************************)
(* class ItemList(list)                                                    *)
(***************************************************************************)
ItemListInitAny(items) ==
    IF items.type \notin {"list", "tuple"} THEN Raise("TypeError")
    ELSE IF Len(items.elems) > 0
            /\ ~(\E i \in DOMAIN items.elems : items.elems[i].type = "Item")
         THEN Raise("TypeError")
    ELSE Return([type |-> "ItemList", elems |-> items.elems])

ItemListInit(items) ==
    IF items.type \notin {"list", "tuple"} THEN Raise("TypeError")
    ELSE IF ~(\A i \in DOMAIN items.elems : items.elems[i].type = "Item")
         THEN Raise("TypeError")
    ELSE Return([type |-> "ItemList", elems |-> items.elems])

(***************************************************************************)
(* class Receipt                                                           *)
(***************************************************************************)
ReceiptInit(meta, itemlist) ==
    IF meta.type # "dict" THEN Raise("TypeError")
    ELSE IF itemlist.type # "ItemList" THEN Raise("TypeError")
    ELSE Return([type |-> "Receipt", meta |-> meta.kv, itemlist |-> itemlist.elems])

(***************************************************************************)
(* The values the constructors are called on.                              *)
(***************************************************************************)
SampleItemA == ItemInit(PyStr(<<"a">>), PyInt(1), PyInt(0), PyInt(0)).obj
SampleItemB == ItemInit(PyStr(<<"b">>), PyInt(2), PyInt(1), PyInt(1)).obj
SampleItems == {SampleItemA, SampleItemB}

NameArgs == {PyStr(<<"a">>), PyInt(1), None}
NumArgs == {PyInt(n) : n \in Nums} \cup {PyStr(<<"1">>), None}

MetaKeys == {"store", "date"}
MetaVals == {<<"Costco">>, <<"Jan 27th">>}
\* dicts: insertion-ordered pairs with distinct keys
Metas ==
    {kv \in SeqsUpTo(MetaKeys \X MetaVals, 2) :
        \A i, j \in DOMAIN kv : i # j => kv[i][1] # kv[j][1]}

ItemSeqs == SeqsUpTo(SampleItems, MaxItems)
ElemVals == SampleItems \cup {PyStr(<<"a">>), None}
ListArgs ==
    {PyList(es) : es \in SeqsUpTo(ElemVals, MaxItems)}
    \cup {PyTuple(es) : es \in SeqsUpTo(ElemVals, MaxItems)}
    \cup {None, PyInt(1), PyStr(<<"a">>), PyDict(<<>>)}
MetaArgs == {PyDict(kv) : kv \in Metas} \cup {None, PyList(<<>>), PyStr(<<"a">>)}
ItemListArgs ==
    {ItemListInit(PyList(es)).obj : es \in ItemSeqs}
    \cup {PyList(es) : es \in ItemSeqs} \cup {None}

(***************************************************************************)
(* SpecData: the constructors and the public interface of Item.  The        *)
(* constructors are called until an Item exists; the Item's public         *)
(* interface is exercised from then on.                                    *)
(***************************************************************************)
NoLine == <<>>
NoPrev == [item_list |-> <<>>, item_cost_list |-> <<>>, A_list |-> <<>>, total |-> 0]

\* everything but the call under way
InitRest ==
    /\ item = None
    /\ item0 = None
    /\ ilist = None
    /\ ilist0 = None
    /\ rcpt = None
    /\ rcpt0 = None
    /\ excArg = {}
    /\ trace = <<>>
    /\ cfs = None
    /\ cfs0 = None
    /\ cvars = None
    /\ writer = None
    /\ ncalls = 0
    /\ text = <<>>
    /\ item_list = <<>>
    /\ item_cost_list = <<>>
    /\ A_list = <<>>
    /\ total = 0
    /\ rec_dict = <<>>
    /\ status = "running"
    /\ nlines = 0
    /\ line = NoLine
    /\ prev = NoPrev

Init ==
    /\ call = [op |-> "", args |-> <<>>]
    /\ exc = ""
    /\ ret = None
    /\ InitRest

NewItem(name, cost, discount, tax) ==
    LET r == ItemInit(name, cost, discount, tax) IN
    /\ item = None
    /\ call' = [op |-> "Item", args |-> <<name, cost, discount, tax>>]
    /\ exc' = r.exc
    /\ ret' = r.obj
    /\ item' = IF r.exc = "" THEN r.obj ELSE item
    /\ item0' = IF r.exc = "" THEN r.obj ELSE item0
    /\ UNCHANGED <<ilist, ilist0, rcpt, rcpt0, writeVars, reprVars, parserVars>>

NewItemList(items) ==
    LET r == ItemListInit(items) IN
    /\ item = None
    /\ call' = [op |-> "ItemList", args |-> <<items>>]
    /\ exc' = r.exc
    /\ ret' = r.obj
    /\ UNCHANGED <<item, item0, ilist, ilist0, rcpt, rcpt0, writeVars, reprVars, parserVars>>

NewReceipt(meta, itemlist) ==
    LET r == ReceiptInit(meta, itemlist) IN
    /\ item = None
    /\ call' = [op |-> "Receipt", args |-> <<meta, itemlist>>]
    /\ exc' = r.exc
    /\ ret' = r.obj
    /\ UNCHANGED <<item, item0, ilist, ilist0, rcpt, rcpt0, writeVars, reprVars, parserVars>>

GetAttr(attr) ==
    /\ item # None
    /\ LET r == ItemGetAttr(item, attr) IN
       /\ call' = [op |-> "getattr", args |-> <<PyStr(<<attr>>)>>]
       /\ exc' = r.exc
       /\ ret' = r.obj
    /\ UNCHANGED <<item, item0, ilist, ilist0, rcpt, rcpt0, writeVars, reprVars, parserVars>>

SetAttr(attr, v) ==
    /\ item # None
    /\ LET r == ItemSetAttr(item, attr, v) IN
       /\ call' = [op |-> "setattr", args |-> <<PyStr(<<attr>>), v>>]
       /\ exc' = r.exc
       /\ ret' = None
       /\ item' = r.obj
    /\ UNCHANGED <<item0, ilist, ilist0, rcpt, rcpt0, writeVars, reprVars, parserVars>>

NextData ==
    \/ \E name \in NameArgs, cost \in NumArgs, discount \in NumArgs, tax \in NumArgs :
          NewItem(name, cost, discount, tax)
    \/ \E items \in ListArgs : NewItemList(items)
    \/ \E meta \in MetaArgs, itemlist \in ItemListArgs : NewReceipt(meta, itemlist)
    \/ \E attr \in ItemAttrs : GetAttr(attr)
    \/ \E attr \in ItemAttrs, v \in {PyInt(n) : n \in Nums} : SetAttr(attr, v)

SpecData == Init /\ [][NextData]_vars

(***************************************************************************)
(* C4, C5: construction and the Item invariant.                            *)
(***************************************************************************)
NotNonNegativeNumber(v) == IF v.type = "int" THEN v.n < 0 ELSE TRUE

BadItemArgs(a) ==
    a[1].type # "str" \/ \E i \in 2 .. 4 : NotNonNegativeNumber(a[i])

BadItemListArg(v) ==
    IF v.type \in {"list", "tuple"}
    THEN \E i \in DOMAIN v.elems : v.elems[i].type # "Item"
    ELSE TRUE

BadReceiptArgs(a) == a[1].type # "dict" \/ a[2].type # "ItemList"

\* C4: construction is fail-fast.  Item(name, cost, discount, tax) raises a
\* validation error whenever name is not text or one of cost, discount, tax
\* is not a number or is negative; ItemList(items) raises whenever items is
\* not a sequence or holds a non-Item; Receipt(meta, itemlist) raises
\* whenever meta is not a mapping or itemlist is not an ItemList.  In each
\* failing case nothing is returned.
C4_FailFast ==
    /\ (call.op = "Item" /\ BadItemArgs(call.args))
          => (exc \in {"TypeError", "ValueError"} /\ ret = None /\ item = None)
    /\ (call.op = "ItemList" /\ BadItemListArg(call.args[1]))
          => (exc \in {"TypeError", "ValueError"} /\ ret = None)
    /\ (call.op = "Receipt" /\ BadReceiptArgs(call.args))
          => (exc \in {"TypeError", "ValueError"} /\ ret = None)

\* C4 witness: an ItemList was asked for on a list that holds an Item and a
\* non-Item, and the constructor raised.
C4_Witness ==
    /\ call.op = "ItemList"
    /\ call.args[1] = PyList(<<SampleItemA, None>>)
    /\ exc = "TypeError"
    /\ ret = None

\* C5: every constructed Item has cost, discount, tax >= 0 and
\* total = cost*(1+tax) - discount, and name, cost, discount, tax and total
\* are as the constructor left them after any use of the public interface.
C5_ItemInvariant ==
    item # None =>
        /\ item.cost >= 0 /\ item.discount >= 0 /\ item.tax >= 0
        /\ item.total = (item.cost * (1 + item.tax)) - item.discount
        /\ item = item0

\* C5 witness: an Item with a tax and a discount exists and an assignment to
\* one of its attributes has been attempted.
C5_Witness ==
    /\ item # None
    /\ item.cost = 2 /\ item.tax = 1 /\ item.discount = 1 /\ item.total = 3
    /\ call.op = "setattr"

(***************************************************************************)
(* SpecObj: an ItemList and a Receipt after construction.  ItemList is a   *)
(* subclass of list and inherits its operations; Receipt.meta and          *)
(* Receipt.itemlist return the objects the Receipt holds, not copies.  The  *)
(* objects are constructed first and operated on afterwards.               *)
(***************************************************************************)
\* list.append, list.pop and list.__iter__ as ItemList inherits them
ListAppend(l, x) == [l EXCEPT !.elems = Append(@, x)]
ListPop(l) == [l EXCEPT !.elems = SubSeq(@, 1, Len(@) - 1)]
ListIter(l) == l.elems

\* the property Receipt.meta: the dict the Receipt holds
ReceiptMeta(r) == r.meta
\* the property Receipt.itemlist: the ItemList the Receipt holds
ReceiptItemList(r) == [type |-> "ItemList", elems |-> r.itemlist]
\* Receipt.__iter__
ReceiptIter(r) == ListIter(ReceiptItemList(r))

\* dict.__setitem__ on the dict Receipt.meta returns
DictSetItem(kv, k, v) ==
    IF \E i \in DOMAIN kv : kv[i][1] = k
    THEN [i \in DOMAIN kv |-> IF kv[i][1] = k THEN <<k, v>> ELSE kv[i]]
    ELSE Append(kv, <<k, v>>)

\* the Receipt holds the ItemList object itself: a change of the list shows
\* through the Receipt
Aliased(r, l) == IF r = None THEN r ELSE [r EXCEPT !.itemlist = l.elems]

MakeItemList(es) ==
    /\ ilist = None
    /\ LET r == ItemListInit(PyList(es)) IN
       /\ call' = [op |-> "ItemList", args |-> <<PyList(es)>>]
       /\ exc' = r.exc
       /\ ret' = r.obj
       /\ ilist' = r.obj
       /\ ilist0' = r.obj
    /\ UNCHANGED <<item, item0, rcpt, rcpt0, writeVars, reprVars, parserVars>>

MakeReceipt(kv) ==
    /\ ilist # None
    /\ ilist = ilist0
    /\ rcpt = None
    /\ LET r == ReceiptInit(PyDict(kv), ilist) IN
       /\ call' = [op |-> "Receipt", args |-> <<PyDict(kv), ilist>>]
       /\ exc' = r.exc
       /\ ret' = r.obj
       /\ rcpt' = r.obj
       /\ rcpt0' = r.obj
    /\ UNCHANGED <<item, item0, ilist, ilist0, writeVars, reprVars, parserVars>>

\* l.append(x), also as r.itemlist.append(x)
DoAppend(x) ==
    /\ ilist # None
    /\ Len(ilist.elems) < MaxItems
    /\ call' = [op |-> "append", args |-> <<x>>]
    /\ exc' = ""
    /\ ret' = None
    /\ ilist' = ListAppend(ilist, x)
    /\ rcpt' = Aliased(rcpt, ListAppend(ilist, x))
    /\ UNCHANGED <<item, item0, ilist0, rcpt0, writeVars, reprVars, parserVars>>

\* l.pop(), also as r.itemlist.pop()
DoPop ==
    /\ ilist # None
    /\ Len(ilist.elems) > 0
    /\ call' = [op |-> "pop", args |-> <<>>]
    /\ exc' = ""
    /\ ret' = ilist.elems[Len(ilist.elems)]
    /\ ilist' = ListPop(ilist)
    /\ rcpt' = Aliased(rcpt, ListPop(ilist))
    /\ UNCHANGED <<item, item0, ilist0, rcpt0, writeVars, reprVars, parserVars>>

\* for x in r
DoIter ==
    /\ rcpt # None
    /\ call' = [op |-> "iter", args |-> <<>>]
    /\ exc' = ""
    /\ ret' = PyList(ReceiptIter(rcpt))
    /\ UNCHANGED <<item, item0, ilist, ilist0, rcpt, rcpt0, writeVars, reprVars, parserVars>>

\* r.meta[k] = v
DoMetaSet(k, v) ==
    /\ rcpt # None
    /\ call' = [op |-> "meta.__setitem__", args |-> <<PyStr(<<k>>), PyStr(v)>>]
    /\ exc' = ""
    /\ ret' = None
    /\ rcpt' = [rcpt EXCEPT !.meta = DictSetItem(ReceiptMeta(rcpt), k, v)]
    /\ UNCHANGED <<item, item0, ilist, ilist0, rcpt0, writeVars, reprVars, parserVars>>

NextObj ==
    \/ \E es \in ItemSeqs : MakeItemList(es)
    \/ \E kv \in {m \in Metas : Len(m) <= 1} : MakeReceipt(kv)
    \/ \E x \in {SampleItemA, None} : DoAppend(x)
    \/ DoPop
    \/ DoIter
    \/ \E k \in MetaKeys, v \in MetaVals : DoMetaSet(k, v)

SpecObj == Init /\ [][NextObj]_vars

\* C6: ItemList and Receipt are immutable after construction: after any
\* operations available on them (those on the objects Receipt.meta and
\* Receipt.itemlist return included) every element of the ItemList is an
\* Item, and the element sequence and the metadata are as at construction.
C6_Immutable ==
    /\ ilist # None =>
          /\ \A i \in DOMAIN ilist.elems : ilist.elems[i].type = "Item"
          /\ ilist.elems = ilist0.elems
    /\ rcpt # None =>
          /\ ReceiptMeta(rcpt) = ReceiptMeta(rcpt0)
          /\ ReceiptItemList(rcpt) = ReceiptItemList(rcpt0)

(***************************************************************************)
(* Equality: ItemList.__eq__, Receipt.__eq__ and their __ne__.             *)
(***************************************************************************)
PyBool(b) == [type |-> "bool", b |-> b]

Min(a, b) == IF a < b THEN a ELSE b

\* zip(self, other): pairs up to the shorter of the two
Zip(a, b) == [i \in 1 .. Min(Len(a), Len(b)) |-> <<a[i], b[i]>>]

\* all(a == b for a, b in zip(self, other))
AllPairsEq(z) == \A i \in DOMAIN z : ItemEq(z[i][1], z[i][2])

ItemListEqNoLen(self, other) ==
    IF ~AllPairsEq(Zip(self.elems, other.elems)) THEN FALSE
    ELSE TRUE

ItemListEq(self, other) ==
    IF Len(self.elems) # Len(other.elems) THEN FALSE
    ELSE IF ~AllPairsEq(Zip(self.elems, other.elems)) THEN FALSE
    ELSE TRUE

ItemListNe(self, other) == ~ItemListEq(self, other)

\* set(meta.items())
ItemsSet(kv) == {kv[i] : i \in DOMAIN kv}

ReceiptEq(self, other) ==
    IF ItemsSet(ReceiptMeta(self)) = ItemsSet(ReceiptMeta(other))
       /\ ItemListEq(ReceiptItemList(self), ReceiptItemList(other))
    THEN TRUE
    ELSE FALSE

ReceiptNe(self, other) == ~ReceiptEq(self, other)

ItemLists == {ItemListInit(PyList(es)).obj : es \in ItemSeqs}
Receipts == {ReceiptInit(PyDict(kv), l).obj : kv \in Metas, l \in ItemLists}

EqOps == {"ItemList.__eq__", "ItemList.__ne__", "Receipt.__eq__", "Receipt.__ne__"}

\* the two operands are drawn when the comparison starts
InitEq ==
    /\ \/ \E a \in ItemLists, b \in ItemLists, op \in {"ItemList.__eq__", "ItemList.__ne__"} :
             call = [op |-> op, args |-> <<a, b>>]
       \/ \E a \in Receipts, b \in Receipts, op \in {"Receipt.__eq__", "Receipt.__ne__"} :
             call = [op |-> op, args |-> <<a, b>>]
    /\ exc = "pending"
    /\ ret = None
    /\ InitRest

Compare ==
    /\ exc = "pending"
    /\ call.op \in EqOps
    /\ exc' = ""
    /\ ret' = PyBool(CASE call.op = "ItemList.__eq__" -> ItemListEq(call.args[1], call.args[2])
                       [] call.op = "ItemList.__ne__" -> ItemListNe(call.args[1], call.args[2])
                       [] call.op = "Receipt.__eq__" -> ReceiptEq(call.args[1], call.args[2])
                       [] call.op = "Receipt.__ne__" -> ReceiptNe(call.args[1], call.args[2]))
    /\ UNCHANGED <<call, item, item0, ilist, ilist0, rcpt, rcpt0, writeVars, reprVars, parserVars>>

NextEq == Compare

SpecEq == InitEq /\ [][NextEq]_vars

\* same length and the same Items, position by position
SameItemsInOrder(a, b) ==
    /\ Len(a) = Len(b)
    /\ \A i \in 1 .. Len(a) :
          /\ a[i].name = b[i].name /\ a[i].cost = b[i].cost
          /\ a[i].discount = b[i].discount /\ a[i].tax = b[i].tax

\* each key/value pair of one dict is a pair of the other, wherever it stands
SamePairs(m1, m2) ==
    /\ \A i \in DOMAIN m1 : \E j \in DOMAIN m2 : m1[i] = m2[j]
    /\ \A j \in DOMAIN m2 : \E i \in DOMAIN m1 : m1[i] = m2[j]

\* C8: two ItemLists are equal iff they have the same length and pairwise
\* equal Items in the same order; two Receipts are equal iff their metadata
\* hold the same key/value pairs, in whatever order, and their ItemLists are
\* equal; != is the negation of ==.
C8_Equality ==
    (exc = "" /\ call.op \in EqOps) =>
        LET a == call.args[1]
            b == call.args[2]
        IN
        /\ call.op = "ItemList.__eq__" => (ret.b <=> SameItemsInOrder(a.elems, b.elems))
        /\ call.op = "ItemList.__ne__" => (ret.b <=> ~SameItemsInOrder(a.elems, b.elems))
        /\ call.op = "Receipt.__eq__" =>
              (ret.b <=> (SamePairs(a.meta, b.meta) /\ SameItemsInOrder(a.itemlist, b.itemlist)))
        /\ call.op = "Receipt.__ne__" =>
              (ret.b <=> ~(SamePairs(a.meta, b.meta) /\ SameItemsInOrder(a.itemlist, b.itemlist)))

\* C8 witness: two Receipts whose metadata hold the same two pairs in
\* opposite orders and whose ItemLists hold the same two different Items in
\* opposite orders have been compared, and they are not equal.
C8_Witness ==
    /\ exc = ""
    /\ call.op = "Receipt.__eq__"
    /\ Len(call.args[1].meta) = 2
    /\ Len(call.args[2].meta) = 2
    /\ call.args[1].meta[1] = call.args[2].meta[2]
    /\ call.args[1].meta[2] = call.args[2].meta[1]
    /\ call.args[1].itemlist = <<SampleItemA, SampleItemB>>
    /\ call.args[2].itemlist = <<SampleItemB, SampleItemA>>
    /\ ret = PyBool(FALSE)

(***************************************************************************)
(* Conversion functions.  A function table maps role names to functions;   *)
(* a function is named by where it is defined.  Arguments and results are  *)
(* Python values.                                                          *)
(***************************************************************************)
\* str(n)
StrOf(n) == <<ToString(n)>>

\* sep.join(parts)
RECURSIVE Join(_, _)
Join(sep, parts) ==
    IF Len(parts) = 0 THEN <<>>
    ELSE IF Len(parts) = 1 THEN parts[1]
    ELSE parts[1] \o sep \o Join(sep, Tail(parts))

\* k in d, d[k]
DictHas(kv, k) == \E i \in DOMAIN kv : kv[i][1] = k
DictGet(kv, k) == kv[CHOOSE i \in DOMAIN kv : kv[i][1] = k][2]

\* writers/csv.py
CsvReceipt(meta, body, variables) ==
    LET output ==
            (IF DictHas(meta, "store") THEN <<(<<"# Store: ">> \o DictGet(meta, "store"))>> ELSE <<>>)
            \o (IF DictHas(meta, "date") THEN <<(<<"# Date: ">> \o DictGet(meta, "date"))>> ELSE <<>>)
            \o (IF DictHas(meta, "location")
                THEN <<(<<"# Location: ">> \o DictGet(meta, "location"))>> ELSE <<>>)
            \o <<body>>
    IN Join(<<"\n">>, output)

CsvItemList(s) == s

CsvItemListSep == <<"\n">>

CsvItem(name, cost, discount, tax) ==
    name \o <<", ">> \o cost \o <<", ">> \o discount \o <<", ">> \o tax

\* f(*a)
CallFn(f, a) ==
    CASE f = "csv.Receipt" -> PyStr(CsvReceipt(a[1].kv, a[2].s, a[3].kv))
      [] f = "csv.ItemList" -> PyStr(CsvItemList(a[1].s))
      [] f = "csv.ItemListSep" -> PyStr(CsvItemListSep)
      [] f = "csv.Item" -> PyStr(CsvItem(a[1].s, a[2].s, a[3].s, a[4].s))
      \* the defaults of write
      [] f = "lambda s: s" -> a[1]
      [] f = "str" -> PyStr(StrOf(a[1].n))
      \* optional entries a caller supplies
      [] f = "caller.Name" -> PyStr(<<"[">> \o a[1].s \o <<"]">>)
      [] f = "caller.Cost" -> PyStr(<<"$">> \o StrOf(a[1].n))
      [] f = "caller.Discount" -> PyStr(<<"-$">> \o StrOf(a[1].n))
      [] f = "caller.Tax" -> PyStr(StrOf(a[1].n) \o <<"%">>)

\* one call of a conversion function: the role, the arguments, the result
Called(role, args, out) == [fn |-> role, args |-> args, out |-> out]

(***************************************************************************)
(* write(convert_fs, variables, receipt)                                   *)
(***************************************************************************)
RequiredFs == {"Receipt", "Item", "ItemList", "ItemListSep"}

\* a check that reports one missing entry only
MissingFsOne(convert_fs) ==
    LET all == RequiredFs \ DOMAIN convert_fs IN
    IF all = {} THEN {} ELSE {CHOOSE k \in all : TRUE}

MissingFs(convert_fs) == RequiredFs \ DOMAIN convert_fs

Defaults ==
    [Name |-> "lambda s: s", Cost |-> "str", Discount |-> "str", Tax |-> "str"]

\* a merge in which the defaults overwrite the caller's entries
MergeFsDefaultsLast(convert_fs) ==
    [k \in DOMAIN Defaults \cup DOMAIN convert_fs |->
        IF k \in DOMAIN Defaults THEN Defaults[k] ELSE convert_fs[k]]

\* fs = dict(list(defaults.items()) + list(convert_fs.items()))
MergeFs(convert_fs) ==
    [k \in DOMAIN Defaults \cup DOMAIN convert_fs |->
        IF k \in DOMAIN convert_fs THEN convert_fs[k] ELSE Defaults[k]]

Types == {"Receipt", "ItemList", "Item"}

\* the result of converting a node: the value, the calls made, the exception
Converted(out, tr) == [exc |-> "", out |-> out, trace |-> tr]
Failed(e, tr) == [exc |-> e, out |-> None, trace |-> tr]

ItemF(fs, node) ==
    LET n == CallFn(fs["Name"], <<PyStr(node.name)>>)
        c == CallFn(fs["Cost"], <<PyInt(node.cost)>>)
        d == CallFn(fs["Discount"], <<PyInt(node.discount)>>)
        t == CallFn(fs["Tax"], <<PyInt(node.tax)>>)
        out == CallFn(fs["Item"], <<n, c, d, t>>)
    IN Converted(out,
           <<Called("Name", <<PyStr(node.name)>>, n),
             Called("Cost", <<PyInt(node.cost)>>, c),
             Called("Discount", <<PyInt(node.discount)>>, d),
             Called("Tax", <<PyInt(node.tax)>>, t),
             Called("Item", <<n, c, d, t>>, out)>>)

RECURSIVE WriteNode(_, _, _)

\* a comprehension that visits the list from its end
RECURSIVE WriteEachReversed(_, _, _)
WriteEachReversed(fs, variables, elems) ==
    IF Len(elems) = 0 THEN Converted(<<>>, <<>>)
    ELSE LET h == WriteNode(fs, variables, elems[Len(elems)])
             t == WriteEachReversed(fs, variables, SubSeq(elems, 1, Len(elems) - 1))
         IN IF h.exc # "" THEN Failed(h.exc, h.trace)
            ELSE IF t.exc # "" THEN Failed(t.exc, h.trace \o t.trace)
            ELSE Converted(<<h.out.s>> \o t.out, h.trace \o t.trace)

\* [__write(item) for item in node]
RECURSIVE WriteEach(_, _, _)
WriteEach(fs, variables, elems) ==
    IF Len(elems) = 0 THEN Converted(<<>>, <<>>)
    ELSE LET h == WriteNode(fs, variables, Head(elems))
             t == WriteEach(fs, variables, Tail(elems))
         IN IF h.exc # "" THEN Failed(h.exc, h.trace)
            ELSE IF t.exc # "" THEN Failed(t.exc, h.trace \o t.trace)
            ELSE Converted(<<h.out.s>> \o t.out, h.trace \o t.trace)

\* fs["ItemListSep"]() is evaluated first, then the comprehension, then join
ItemListF(fs, variables, node) ==
    LET sep == CallFn(fs["ItemListSep"], <<>>)
        sepCall == <<Called("ItemListSep", <<>>, sep)>>
        each == WriteEach(fs, variables, ListIter(node))
    IN IF each.exc # "" THEN Failed(each.exc, sepCall \o each.trace)
       ELSE LET joined == PyStr(Join(sep.s, each.out))
                out == CallFn(fs["ItemList"], <<joined>>)
            IN Converted(out, sepCall \o each.trace \o <<Called("ItemList", <<joined>>, out)>>)

ReceiptF(fs, variables, node) ==
    LET meta == PyDict(ReceiptMeta(node))
        body == WriteNode(fs, variables, ReceiptItemList(node))
    IN IF body.exc # "" THEN Failed(body.exc, body.trace)
       ELSE LET out == CallFn(fs["Receipt"], <<meta, body.out, variables>>)
            IN Converted(out, body.trace \o <<Called("Receipt", <<meta, body.out, variables>>, out)>>)

\* __write(node): types[type(node)](node)
WriteNode(fs, variables, node) ==
    IF node.type \notin Types THEN Failed("KeyError", <<>>)
    ELSE CASE node.type = "Receipt" -> ReceiptF(fs, variables, node)
           [] node.type = "ItemList" -> ItemListF(fs, variables, node)
           [] node.type = "Item" -> ItemF(fs, node)

Write(convert_fs, variables, receipt) ==
    LET missing_fs == MissingFs(convert_fs) IN
    IF Cardinality(missing_fs) > 0
    THEN [exc |-> "ValueError", excArg |-> missing_fs, out |-> None, trace |-> <<>>]
    ELSE LET r == WriteNode(MergeFs(convert_fs), variables, receipt)
         IN [exc |-> r.exc, excArg |-> {}, out |-> r.out, trace |-> r.trace]

(***************************************************************************)
(* SpecWrite: one call write(convert_fs, variables, receipt); the three    *)
(* arguments are drawn when the call starts.                               *)
(***************************************************************************)
AllRoles == RequiredFs \cup DOMAIN Defaults

\* the function a caller's table holds under each role
TableFn ==
    [Receipt |-> "csv.Receipt", ItemList |-> "csv.ItemList",
     ItemListSep |-> "csv.ItemListSep", Item |-> "csv.Item",
     Name |-> "caller.Name", Cost |-> "caller.Cost",
     Discount |-> "caller.Discount", Tax |-> "caller.Tax"]

Tables == {[k \in K |-> TableFn[k]] : K \in SUBSET AllRoles}

VarDicts == {<<>>, <<(<<"user", <<"me">>>>)>>}

WriteMetas ==
    {<<>>,
     <<(<<"store", <<"Costco">>>>)>>,
     <<(<<"store", <<"Costco">>>>), (<<"date", <<"Jan 27th">>>>),
       (<<"location", <<"Berkeley">>>>)>>}

WriteReceipts == {ReceiptInit(PyDict(kv), l).obj : kv \in WriteMetas, l \in ItemLists}

InitWrite ==
    /\ \E t \in Tables, v \in VarDicts, r \in WriteReceipts :
          call = [op |-> "write", args |-> <<t, PyDict(v), r>>]
    /\ exc = "pending"
    /\ ret = None
    /\ InitRest

DoWrite ==
    /\ exc = "pending"
    /\ call.op = "write"
    /\ LET r == Write(call.args[1], call.args[2], call.args[3]) IN
       /\ exc' = r.exc
       /\ excArg' = r.excArg
       /\ ret' = r.out
       /\ trace' = r.trace
    /\ UNCHANGED <<call, item, item0, ilist, ilist0, rcpt, rcpt0>>
    /\ UNCHANGED <<cfs, cfs0, cvars, writer, ncalls, reprVars, parserVars>>

NextWrite == DoWrite

SpecWrite == InitWrite /\ [][NextWrite]_vars

WriteDone == call.op = "write" /\ exc # "pending"

\* C1: when the table lacks required entries, write fails with a
\* configuration error that names exactly the missing required entries, and
\* no conversion function has been invoked.
C1_MissingEntries ==
    WriteDone =>
        LET t == call.args[1]
            lacking == {k \in {"Receipt", "Item", "ItemList", "ItemListSep"} : k \notin DOMAIN t}
        IN lacking # {} =>
              /\ exc = "ValueError"
              /\ excArg = lacking
              /\ trace = <<>>
              /\ ret = None

\* C1 witness: write was called with a table that lacks "ItemListSep" and
\* "Item" and supplies the other entries, and it raised naming the two.
C1_Witness ==
    /\ WriteDone
    /\ DOMAIN call.args[1] = AllRoles \ {"ItemListSep", "Item"}
    /\ exc = "ValueError"
    /\ excArg = {"ItemListSep", "Item"}

\* the conversion of one field as the claim states it: the caller's entry
\* when the table has one, otherwise the text unchanged (Name) or the text
\* form of the number (Cost, Discount, Tax)
FieldOut(t, role, v) ==
    IF role \in DOMAIN t THEN CallFn(t[role], <<v>>)
    ELSE IF role = "Name" THEN v
    ELSE PyStr(<<ToString(v.n)>>)

ItemOut(t, it) ==
    CallFn(t["Item"], <<FieldOut(t, "Name", PyStr(it.name)),
                        FieldOut(t, "Cost", PyInt(it.cost)),
                        FieldOut(t, "Discount", PyInt(it.discount)),
                        FieldOut(t, "Tax", PyInt(it.tax))>>)

ExpectedOut(t, v, r) ==
    LET items == r.itemlist
        outs == [k \in 1 .. Len(items) |-> ItemOut(t, items[k]).s]
        body == CallFn(t["ItemList"], <<PyStr(Join(CallFn(t["ItemListSep"], <<>>).s, outs))>>)
    IN CallFn(t["Receipt"], <<PyDict(r.meta), body, v>>)

\* C2: with the four required entries present, write returns
\* Receipt_fn(meta, ItemList_fn(join(ItemListSep_fn(), [Item_fn(Name(name),
\* Cost(cost), Discount(discount), Tax(tax)) for each item in order])),
\* variables), each of Name/Cost/Discount/Tax being the caller's entry when
\* supplied and the default otherwise.
C2_Result ==
    (WriteDone /\ RequiredFs \subseteq DOMAIN call.args[1]) =>
        /\ exc = ""
        /\ ret = ExpectedOut(call.args[1], call.args[2], call.args[3])
        /\ trace[Len(trace)].fn = "Receipt"
        /\ trace[Len(trace)].args[1] = PyDict(call.args[3].meta)
        /\ trace[Len(trace)].args[3] = call.args[2]

\* C2 witness: a receipt of two items was written with a table that
\* supplies Cost and leaves Name, Discount and Tax to the defaults.
C2_Witness ==
    /\ WriteDone
    /\ DOMAIN call.args[1] = RequiredFs \cup {"Cost"}
    /\ call.args[3].itemlist = <<SampleItemA, SampleItemB>>
    /\ ret = PyStr(<<"# Store: ", "Costco", "\n",
                     "a", ", ", "$", "1", ", ", "0", ", ", "0", "\n",
                     "b", ", ", "$", "2", ", ", "1", ", ", "1">>)

\* the positions of the calls of one role in the trace
CallsOf(role) == {i \in DOMAIN trace : trace[i].fn = role}

\* C3: the conversion calls of one write are made bottom-up: Item once per
\* item in sequence order (each after the conversions of its own fields),
\* then the item outputs joined with the separator ItemListSep() produced
\* are passed to ItemList, and Receipt is called last, on what ItemList
\* returned.
C3_PostOrder ==
    (WriteDone /\ exc = "") =>
        LET items == call.args[3].itemlist
            t == call.args[1]
            itemCalls == SelectSeq(trace, LAMBDA e : e.fn = "Item")
            n == Len(trace)
        IN
        /\ Len(itemCalls) = Len(items)
        /\ \A k \in 1 .. Len(items) : itemCalls[k].out = ItemOut(t, items[k])
        /\ \A i \in CallsOf("Item") :
              /\ i > 4
              /\ trace[i - 4].fn = "Name" /\ trace[i - 3].fn = "Cost"
              /\ trace[i - 2].fn = "Discount" /\ trace[i - 1].fn = "Tax"
              /\ trace[i].args = <<trace[i - 4].out, trace[i - 3].out,
                                  trace[i - 2].out, trace[i - 1].out>>
        /\ CallsOf("ItemList") = {n - 1}
        /\ CallsOf("Receipt") = {n}
        /\ \A i \in CallsOf("Item") \cup CallsOf("Name") \cup CallsOf("Cost")
                   \cup CallsOf("Discount") \cup CallsOf("Tax") : i < n - 1
        /\ \E j \in CallsOf("ItemListSep") :
              trace[n - 1].args[1] =
                  PyStr(Join(trace[j].out.s, [k \in 1 .. Len(itemCalls) |-> itemCalls[k].out.s]))
        /\ trace[n].args[2] = trace[n - 1].out

\* C3 witness: a receipt of two different items has been written; the
\* trace holds the separator call, five calls per item, ItemList, Receipt.
C3_Witness ==
    /\ WriteDone
    /\ exc = ""
    /\ call.args[3].itemlist = <<SampleItemA, SampleItemB>>
    /\ Len(trace) = 13
    /\ trace[6].fn = "Item" /\ trace[11].fn = "Item"
    /\ trace[12].fn = "ItemList" /\ trace[13].fn = "Receipt"

(***************************************************************************)
(* SpecWriter: a configured writer w = write(convert_fs, variables) used   *)
(* on one receipt after another, next to direct calls of write.  write is  *)
(* curried: given two arguments it returns a callable that holds the two   *)
(* objects and runs the body of write when it is given the receipt.        *)
(***************************************************************************)
\* a body of write that adds the defaults to the caller's dict
ConvertFsUpdated(convert_fs) == MergeFs(convert_fs)

\* the caller's dict after the body of write has run: fs is a new dict,
\* convert_fs is only read
ConvertFsAfterWrite(convert_fs) == convert_fs

\* the receipt after the body of write has run: the nodes are only read
ReceiptAfterWrite(receipt) == receipt

\* write(convert_fs, variables): the curry holds the caller's two objects
Curry(nargs) == [func |-> "write", nargs |-> nargs]

WriterTables ==
    {[k \in RequiredFs \cup O |-> TableFn[k]] : O \in SUBSET {"Name", "Cost"}}
    \cup {[k \in AllRoles \ {"ItemListSep"} |-> TableFn[k]]}

Configure(t, v) ==
    /\ cfs = None
    /\ cfs' = t
    /\ cvars' = PyDict(v)
    /\ cfs0' = [cfs |-> t, cvars |-> PyDict(v)]
    /\ writer' = Curry(2)
    /\ call' = [op |-> "write", args |-> <<t, PyDict(v)>>]
    /\ UNCHANGED <<exc, ret, item, item0, ilist, ilist0, rcpt, rcpt0>>
    /\ UNCHANGED <<excArg, trace, ncalls, reprVars, parserVars>>

\* w(r)
CallWriter(r) ==
    /\ writer # None
    /\ ncalls < MaxCalls
    /\ LET res == Write(cfs, cvars, r) IN
       /\ call' = [op |-> "w", args |-> <<r>>]
       /\ exc' = res.exc
       /\ excArg' = res.excArg
       /\ ret' = res.out
       /\ trace' = res.trace
    /\ cfs' = ConvertFsAfterWrite(cfs)
    /\ rcpt' = ReceiptAfterWrite(r)
    /\ rcpt0' = r
    /\ ncalls' = ncalls + 1
    /\ UNCHANGED <<item, item0, ilist, ilist0, cfs0, cvars, writer, reprVars, parserVars>>

\* write(convert_fs, variables, r)
CallWrite(r) ==
    /\ cfs # None
    /\ ncalls < MaxCalls
    /\ LET res == Write(cfs, cvars, r) IN
       /\ call' = [op |-> "write", args |-> <<cfs, cvars, r>>]
       /\ exc' = res.exc
       /\ excArg' = res.excArg
       /\ ret' = res.out
       /\ trace' = res.trace
    /\ cfs' = ConvertFsAfterWrite(cfs)
    /\ rcpt' = ReceiptAfterWrite(r)
    /\ rcpt0' = r
    /\ ncalls' = ncalls + 1
    /\ UNCHANGED <<item, item0, ilist, ilist0, cfs0, cvars, writer, reprVars, parserVars>>

NextWriter ==
    \/ \E t \in WriterTables, v \in VarDicts : Configure(t, v)
    \/ \E r \in WriteReceipts : CallWriter(r)
    \/ \E r \in WriteReceipts : CallWrite(r)

SpecWriter == Init /\ [][NextWriter]_vars

ItemRepr(it) ==
    <<"Item(", "\"">> \o it.name
    \o <<"\"", ", ", ToString(it.cost), ", ", ToString(it.discount), ", ",
         ToString(it.tax), ")">>

\* list.__repr__(self): the repr of each element, comma-separated, in brackets
ListRepr(elems) ==
    <<"[">> \o Join(<<", ">>, [i \in DOMAIN elems |-> ItemRepr(elems[i])]) \o <<"]">>

\* "ItemList({})".format(list.__repr__(self))
ItemListRepr(l) == <<"ItemList(">> \o ListRepr(l.elems) \o <<")">>

\* repr of a str: single quotes, unless the text holds a single quote and
\* no double quote; the backslash and the quote in use are escaped
RECURSIVE Escaped(_, _)
Escaped(str, q) ==
    IF Len(str) = 0 THEN <<>>
    ELSE (IF Head(str) = "\\" \/ Head(str) = q THEN <<"\\", Head(str)>> ELSE <<Head(str)>>)
         \o Escaped(Tail(str), q)

Has(str, c) == \E i \in DOMAIN str : str[i] = c

StrRepr(str) ==
    LET q == IF Has(str, "'") /\ ~Has(str, "\"") THEN "\"" ELSE "'"
    IN <<q>> \o Escaped(str, q) \o <<q>>

\* str(dict): "{k: v, ...}" with the repr of each key and value
DictStr(kv) ==
    <<"{">>
    \o Join(<<", ">>, [i \in DOMAIN kv |-> StrRepr(<<kv[i][1]>>) \o <<": ">> \o StrRepr(kv[i][2])])
    \o <<"}">>

\* "Receipt({}, {})".format(self._meta, self._itemlist)
ReceiptRepr(r) ==
    <<"Receipt(">> \o DictStr(r.meta) \o <<", ">> \o ItemListRepr(ReceiptItemList(r)) \o <<")">>

Repr(x) ==
    CASE x.type = "Item" -> ItemRepr(x)
      [] x.type = "ItemList" -> ItemListRepr(x)
      [] x.type = "Receipt" -> ReceiptRepr(x)

(***************************************************************************)
(* eval of such a text ("receipts stored as a string version of the IR     *)
(* format can be just eval'd in"): Python's reading of the constructor     *)
(* calls, string literals and numbers the text is made of.                 *)
(***************************************************************************)
Tok(toks, p) == IF p >= 1 /\ p <= Len(toks) THEN toks[p] ELSE "<end>"

Quotes == {"\"", "'"}

SyntaxError == [ok |-> FALSE, exc |-> "SyntaxError", val |-> None, pos |-> 0]
Threw(e) == [ok |-> FALSE, exc |-> e, val |-> None, pos |-> 0]
Parsed(v, p) == [ok |-> TRUE, exc |-> "", val |-> v, pos |-> p]

\* a backslash escape in a string literal
Unescape(c) ==
    IF c \in {"\\", "'", "\""} THEN <<c>>
    ELSE IF c = "a" THEN <<"<BEL>">>
    ELSE <<"\\", c>>

\* the body of a string literal opened by q (three of q when triple)
RECURSIVE ScanString(_, _, _, _, _)
ScanString(toks, p, q, triple, acc) ==
    IF p > Len(toks) THEN SyntaxError
    ELSE IF toks[p] = "\\"
         THEN IF p + 1 > Len(toks) THEN SyntaxError
              ELSE ScanString(toks, p + 2, q, triple, acc \o Unescape(toks[p + 1]))
    ELSE IF ~triple /\ toks[p] = q THEN Parsed(PyStr(acc), p + 1)
    ELSE IF triple /\ toks[p] = q /\ Tok(toks, p + 1) = q /\ Tok(toks, p + 2) = q
         THEN Parsed(PyStr(acc), p + 3)
    ELSE ScanString(toks, p + 1, q, triple, acc \o <<toks[p]>>)

StringLiteral(toks, p) ==
    IF Tok(toks, p) \notin Quotes THEN SyntaxError
    ELSE LET q == toks[p] IN
         IF Tok(toks, p + 1) = q /\ Tok(toks, p + 2) = q
         THEN ScanString(toks, p + 3, q, TRUE, <<>>)
         ELSE ScanString(toks, p + 1, q, FALSE, <<>>)

\* F applied to the value of x, x evaluated once
Let(x, F(_)) == CHOOSE v \in {F(y) : y \in {x}} : TRUE

\* adjacent string literals are concatenated
RECURSIVE StringAtom(_, _)
StringAtom(toks, p) ==
    Let(StringLiteral(toks, p), LAMBDA a :
        IF ~a.ok THEN a
        ELSE IF Tok(toks, a.pos) \in Quotes
             THEN Let(StringAtom(toks, a.pos), LAMBDA b :
                      IF ~b.ok THEN b ELSE Parsed(PyStr(a.val.s \o b.val.s), b.pos))
        ELSE a)

NumberAtom(toks, p) ==
    IF \E n \in 0 .. MaxNum : Tok(toks, p) = ToString(n)
    THEN Parsed(PyInt(CHOOSE n \in 0 .. MaxNum : Tok(toks, p) = ToString(n)), p + 1)
    ELSE SyntaxError

\* the call of a constructor on the arguments read, the text read up to p
Construct(r, p) == IF r.exc # "" THEN Threw(r.exc) ELSE Parsed(r.obj, p)

\* Item(<str>, <number>, <number>, <number>)
ItemExpr(toks, p) ==
    IF Tok(toks, p) # "Item(" THEN SyntaxError
    ELSE Let(StringAtom(toks, p + 1), LAMBDA name :
    IF ~name.ok THEN name
    ELSE IF Tok(toks, name.pos) # ", " THEN SyntaxError
    ELSE Let(NumberAtom(toks, name.pos + 1), LAMBDA cost :
    IF ~cost.ok THEN cost
    ELSE IF Tok(toks, cost.pos) # ", " THEN SyntaxError
    ELSE Let(NumberAtom(toks, cost.pos + 1), LAMBDA discount :
    IF ~discount.ok THEN discount
    ELSE IF Tok(toks, discount.pos) # ", " THEN SyntaxError
    ELSE Let(NumberAtom(toks, discount.pos + 1), LAMBDA tax :
    IF ~tax.ok THEN tax
    ELSE IF Tok(toks, tax.pos) # ")" THEN SyntaxError
    ELSE Construct(ItemInit(name.val, cost.val, discount.val, tax.val), tax.pos + 1)))))

\* the elements of a list display, up to its closing bracket
RECURSIVE ItemsExpr(_, _, _)
ItemsExpr(toks, p, acc) ==
    Let(ItemExpr(toks, p), LAMBDA e :
        IF ~e.ok THEN e
        ELSE IF Tok(toks, e.pos) = ", " THEN ItemsExpr(toks, e.pos + 1, Append(acc, e.val))
        ELSE IF Tok(toks, e.pos) = "]" THEN Parsed(PyList(Append(acc, e.val)), e.pos + 1)
        ELSE SyntaxError)

ListExpr(toks, p) ==
    IF Tok(toks, p) # "[" THEN SyntaxError
    ELSE IF Tok(toks, p + 1) = "]" THEN Parsed(PyList(<<>>), p + 2)
    ELSE ItemsExpr(toks, p + 1, <<>>)

\* ItemList(<list>)
ItemListExpr(toks, p) ==
    IF Tok(toks, p) # "ItemList(" THEN SyntaxError
    ELSE Let(ListExpr(toks, p + 1), LAMBDA l :
    IF ~l.ok THEN l
    ELSE IF Tok(toks, l.pos) # ")" THEN SyntaxError
    ELSE Construct(ItemListInit(l.val), l.pos + 1))

\* the pairs of a dict display, up to its closing brace (a key is one lexeme)
RECURSIVE PairsExpr(_, _, _)
PairsExpr(toks, p, acc) ==
    Let(StringAtom(toks, p), LAMBDA k :
    IF ~k.ok THEN k
    ELSE IF Tok(toks, k.pos) # ": " THEN SyntaxError
    ELSE Let(StringAtom(toks, k.pos + 1), LAMBDA v :
    IF ~v.ok THEN v
    ELSE IF Len(k.val.s) # 1 THEN SyntaxError
    ELSE IF Tok(toks, v.pos) = ", "
         THEN PairsExpr(toks, v.pos + 1, DictSetItem(acc, k.val.s[1], v.val.s))
    ELSE IF Tok(toks, v.pos) = "}"
         THEN Parsed(PyDict(DictSetItem(acc, k.val.s[1], v.val.s)), v.pos + 1)
    ELSE SyntaxError))

DictExpr(toks, p) ==
    IF Tok(toks, p) # "{" THEN SyntaxError
    ELSE IF Tok(toks, p + 1) = "}" THEN Parsed(PyDict(<<>>), p + 2)
    ELSE PairsExpr(toks, p + 1, <<>>)

\* Receipt(<dict>, ItemList(<list>))
ReceiptExpr(toks, p) ==
    IF Tok(toks, p) # "Receipt(" THEN SyntaxError
    ELSE Let(DictExpr(toks, p + 1), LAMBDA meta :
    IF ~meta.ok THEN meta
    ELSE IF Tok(toks, meta.pos) # ", " THEN SyntaxError
    ELSE Let(ItemListExpr(toks, meta.pos + 1), LAMBDA l :
    IF ~l.ok THEN l
    ELSE IF Tok(toks, l.pos) # ")" THEN SyntaxError
    ELSE Construct(ReceiptInit(meta.val, l.val), l.pos + 1)))

\* eval(text): the whole text is one expression
WholeText(toks, e) == IF e.ok /\ e.pos # Len(toks) + 1 THEN SyntaxError ELSE e

Eval(toks) ==
    CASE Tok(toks, 1) = "Item(" -> Let(ItemExpr(toks, 1), LAMBDA e : WholeText(toks, e))
      [] Tok(toks, 1) = "ItemList(" -> Let(ItemListExpr(toks, 1), LAMBDA e : WholeText(toks, e))
      [] Tok(toks, 1) = "Receipt(" -> Let(ReceiptExpr(toks, 1), LAMBDA e : WholeText(toks, e))
      [] OTHER -> SyntaxError

(***************************************************************************)
(* SpecRepr: the round trip eval(repr(x)); x is drawn when it starts.      *)
(***************************************************************************)
NameChars == {"a", "\"", "\\"}
ReprNames == SeqsUpTo(NameChars, MaxNameLen)
ReprItems ==
    {ItemInit(PyStr(n), PyInt(c), PyInt(0), PyInt(1)).obj : n \in ReprNames, c \in 0 .. 1}
ReprItemLists == {ItemListInit(PyList(es)).obj : es \in SeqsUpTo(ReprItems, 2)}
ReprMetas ==
    {<<>>} \cup {<<(<<"store", v>>)>> : v \in SeqsUpTo(NameChars \cup {"'"}, 2)}
ReprReceipts ==
    {ReceiptInit(PyDict(kv), ItemListInit(PyList(es)).obj).obj :
        kv \in ReprMetas, es \in SeqsUpTo(ReprItems, 1)}

InitRepr ==
    /\ \E x \in ReprItems \cup ReprItemLists \cup ReprReceipts :
          call = [op |-> "repr", args |-> <<x>>]
    /\ exc = "pending"
    /\ ret = None
    /\ InitRest

\* eval(repr(x))
RoundTrip ==
    /\ exc = "pending"
    /\ call.op = "repr"
    /\ text' = Repr(call.args[1])
    /\ \E e \in {Eval(Repr(call.args[1]))} :
          /\ exc' = e.exc
          /\ ret' = e.val
    /\ UNCHANGED <<call, item, item0, ilist, ilist0, rcpt, rcpt0, writeVars, parserVars>>

NextRepr == RoundTrip

SpecRepr == InitRepr /\ [][NextRepr]_vars

\* x == y for two values of the data model
ValueEq(x, y) ==
    /\ x.type = y.type
    /\ CASE x.type = "Item" -> ItemEq(x, y)
         [] x.type = "ItemList" -> ItemListEq(x, y)
         [] x.type = "Receipt" -> ReceiptEq(x, y)
         [] OTHER -> FALSE

\* C7: for every valid Item, ItemList or Receipt x, the text of x is a
\* constructor-call expression whose evaluation yields a value equal to x.
C7_RoundTrip ==
    (call.op = "repr" /\ exc # "pending") =>
        /\ exc = ""
        /\ ValueEq(ret, call.args[1])

(***************************************************************************)
(* The OCR line parser (parser.py).  A line is the sequence of its         *)
(* tab-separated fields; a field is a sequence of characters.              *)
(***************************************************************************)
Digits == {"1"}

\* float(str) succeeds: digits, with an optional leading minus sign
IsFloat(str) ==
    \/ Len(str) >= 1 /\ \A i \in DOMAIN str : str[i] \in Digits
    \/ Len(str) >= 2 /\ str[1] = "-" /\ \A i \in 2 .. Len(str) : str[i] \in Digits

RECURSIVE DecimalOf(_)
DecimalOf(str) ==
    IF Len(str) = 0 THEN 0
    ELSE 10 * DecimalOf(SubSeq(str, 1, Len(str) - 1)) + 1

\* float(str)
FloatOf(str) == IF str[1] = "-" THEN 0 - DecimalOf(Tail(str)) ELSE DecimalOf(str)

\* chartest(input, test_char)
chartest(input, test_char) == IF input = test_char THEN 1 ELSE 0

\* item = []; item_cost = []; found_flag = 0; A_flag = 0; min_flag = 0
\* (item_cost is read only once found_flag is set)
LineStart ==
    [item |-> PyList(<<>>), item_cost |-> 0, found_flag |-> 0, A_flag |-> 0, min_flag |-> 0]

\* the inner while loop: characters are taken off the end of temp until what
\* is left floats; item = temp_list[-2] fails silently on a single column
RECURSIVE StripChars(_, _, _)
StripChars(temp, temp_list, st) ==
    IF ~(Len(temp) > 0 /\ st.found_flag = 0) THEN st
    ELSE LET A == chartest(temp[Len(temp)], "A")
             m == chartest(temp[Len(temp)], "-")
             rest == SubSeq(temp, 1, Len(temp) - 1)
         IN IF IsFloat(rest)
            THEN [item |-> IF Len(temp_list) >= 2 THEN PyStr(temp_list[Len(temp_list) - 1])
                           ELSE st.item,
                  item_cost |-> FloatOf(rest), found_flag |-> 1, A_flag |-> A, min_flag |-> m]
            ELSE StripChars(rest, temp_list, [st EXCEPT !.A_flag = A, !.min_flag = m])

\* the outer while loop: columns are popped from the end of temp_list
RECURSIVE ScanColumns(_, _)
ScanColumns(temp_list, st) ==
    IF ~(Len(temp_list) > 0 /\ st.found_flag = 0) THEN st
    ELSE ScanColumns(SubSeq(temp_list, 1, Len(temp_list) - 1),
                     StripChars(temp_list[Len(temp_list)], temp_list, st))

\* the try / except of the main loop on the columns n of one line
ParseLine(n) ==
    IF IsFloat(n[Len(n)]) /\ Len(n) >= 2
    THEN [LineStart EXCEPT !.item_cost = FloatOf(n[Len(n)]),
                           !.item = PyStr(n[Len(n) - 1]), !.found_flag = 1]
    ELSE ScanColumns(n, IF IsFloat(n[Len(n)])
                        THEN [LineStart EXCEPT !.item_cost = FloatOf(n[Len(n)])]
                        ELSE LineStart)

FieldChars == {"1", "A", "-"}
CostFields == SeqsUpTo(FieldChars, MaxFieldLen)
NameField == <<"x">>
\* the lines of okout.txt: a cost column alone, after a name column, or
\* followed by a column without a number
Lines ==
    {<<f>> : f \in CostFields} \cup {<<NameField, f>> : f \in CostFields}
    \cup {<<NameField, f, <<"A">>>> : f \in {<<"1", "1">>, <<"1", "-">>}}

Snapshot ==
    [item_list |-> item_list, item_cost_list |-> item_cost_list, A_list |-> A_list,
     total |-> total]

\* one pass of the main loop, on line n
ProcessLine(n) ==
    /\ status = "running"
    /\ nlines < MaxLines
    /\ nlines' = nlines + 1
    /\ line' = n
    /\ prev' = Snapshot
    /\ \E r \in {ParseLine(n)} :
          IF r.found_flag = 1
          THEN IF r.min_flag = 1
               THEN IF Len(item_cost_list) = 0
                    THEN /\ status' = "IndexError"
                         /\ UNCHANGED <<item_list, item_cost_list, A_list, total, rec_dict>>
                    ELSE /\ item_cost_list' =
                               [item_cost_list EXCEPT ![Len(item_cost_list)] = @ - r.item_cost]
                         /\ total' = total - r.item_cost
                         /\ UNCHANGED <<item_list, A_list, rec_dict, status>>
               ELSE IF r.item.type = "list"
                    THEN /\ status' = "TypeError"
                         /\ UNCHANGED <<item_list, item_cost_list, A_list, total, rec_dict>>
                    ELSE /\ rec_dict' = DictSetItem(rec_dict, r.item.s, r.item_cost)
                         /\ total' = total + r.item_cost
                         /\ item_list' = Append(item_list, r.item.s)
                         /\ item_cost_list' = Append(item_cost_list, r.item_cost)
                         /\ A_list' = Append(A_list, r.A_flag)
                         /\ UNCHANGED status
          ELSE UNCHANGED <<item_list, item_cost_list, A_list, total, rec_dict, status>>
    /\ UNCHANGED <<dataVars, writeVars, reprVars>>

NextParser == \E n \in Lines : ProcessLine(n)

SpecParser == Init /\ [][NextParser]_vars

\* the cost field (the last column) is an amount followed by the marker '-'
IsAdjustmentLine(n) ==
    LET f == n[Len(n)] IN
    Len(f) >= 2 /\ f[Len(f)] = "-" /\ IsFloat(SubSeq(f, 1, Len(f) - 1))

AdjustmentAmount(n) == FloatOf(SubSeq(n[Len(n)], 1, Len(n[Len(n)]) - 1))

\* the last of two or more columns is an amount, or an amount and an 'A'
IsChargeLine(n) ==
    LET f == n[Len(n)] IN
    /\ Len(n) >= 2
    /\ \/ IsFloat(f)
       \/ Len(f) >= 2 /\ f[Len(f)] = "A" /\ IsFloat(SubSeq(f, 1, Len(f) - 1))

\* C10: whatever lines came before, an adjustment line subtracts its amount
\* from the cost of the item before it and adds no item: the three lists
\* keep their (equal) lengths and the total goes down by the amount; a
\* charge line appends one entry to each of the three lists.
C10_Adjustment ==
    line # NoLine =>
        /\ IsAdjustmentLine(line) =>
              /\ Len(item_list) = Len(prev.item_list)
              /\ Len(item_cost_list) = Len(prev.item_cost_list)
              /\ Len(A_list) = Len(prev.A_list)
              /\ Len(item_list) = Len(item_cost_list) /\ Len(item_list) = Len(A_list)
              /\ Len(prev.item_cost_list) > 0
              /\ item_cost_list[Len(item_cost_list)] =
                    prev.item_cost_list[Len(item_cost_list)] - AdjustmentAmount(line)
              /\ total = prev.total - AdjustmentAmount(line)
        /\ IsChargeLine(line) =>
              /\ Len(item_list) = Len(prev.item_list) + 1
              /\ Len(item_cost_list) = Len(prev.item_cost_list) + 1
              /\ Len(A_list) = Len(prev.A_list) + 1

====
